---------------------------- MODULE Spec2Model ----------------------------
(***************************************************************************)
(* Training driver of the MICCAI 2018 VoxelMorph network                   *)
(* (src/src/train_miccai2018.py).                                          *)
(*                                                                         *)
(* The module models one invocation of train(), either through the         *)
(* command line (__main__) or as a direct call: the position of the        *)
(* control thread in train(), the process-wide GPU/session state, the      *)
(* model parameters, the contents of model_dir, and the background batch   *)
(* producer that fit_generator starts and that hands batches over through  *)
(* a bounded queue.                                                        *)
(***************************************************************************)
EXTENDS Integers, Sequences, FiniteSets, TLC

(* ------------------------------ bounds -------------------------------- *)
MaxInitialEpoch == 10   \* initial_epoch ranges over 0..MaxInitialEpoch
MaxRunEpochs == 2       \* nb_epochs ranges over 0..initial_epoch + MaxRunEpochs
MaxStepsPerEpoch == 5   \* steps_per_epoch ranges over 1..MaxStepsPerEpoch
MaxVols == 1            \* number of *.npz files in data_dir, 0..MaxVols
MaxErr == 2             \* squared error of a voxel, 0..MaxErr
MaxVar == 2             \* predicted variance of a voxel, 0..MaxVar (0: saturated)
MaxFloor == 2           \* variance floor, 1..MaxFloor
MaxSigma == 2           \* image_sigma, 1..MaxSigma

(* ------------------------- program constants -------------------------- *)
\* fit_generator is called without max_queue_size: the enqueuer's default
max_queue_size == 10

\* value of load_model_file when train() is called with None
None == "None"
\* argparse default of --load_model_file
DefaultLoadModelFile == "../models/miccai2018_10_02_init1.h5"
\* a path given by the caller
UserLoadModelFile == "user.h5"

VARIABLES
    args,          \* the arguments train() runs with
    invocation,    \* "cli" (through __main__) or "api" (direct call), and
    flag_passed,   \*   whether --load_model_file was on the command line
    weights_ok,    \* whether the file named by load_model_file is loadable
    train_vol_names, \* number of volumes glob found (0 before the glob)
    pc,            \* position of the control thread
    err,           \* which failure ended the run ("" while none)
    cuda_env,      \* CUDA_VISIBLE_DEVICES has been set by this run
    session,       \* a tf.Session has been created
    model,         \* the network: built, loaded, compiled flags and its losses
    params,        \* number of parameter updates applied to the model
    begun,         \* number of optimization steps begun
    epoch,         \* fit_generator's epoch counter
    steps_done,    \* fit_generator's step counter inside the epoch
    dir_exists,    \* model_dir is a directory
    files,         \* model_dir: file name -> content
    dir0,          \* model_dir as it was when the run started
    written,       \* names of the files this run saved successfully
    loop_saves,    \* epoch numbers saved by the checkpoint callback, in order
    log,           \* lifecycle events in the order they happened
    queue,         \* batches produced and not yet consumed
    produced,      \* number of batches the producer has generated
    producer,      \* "idle", "running", "failed" or "stopped"
    loss_args,     \* a prediction handed to recon_loss, with floor and sigma
    loss           \* the value recon_loss returned for it

vars == <<args, invocation, flag_passed, weights_ok, train_vol_names, pc, err,
          cuda_env, session, model, params, begun, epoch, steps_done,
          dir_exists, files, dir0, written, loop_saves, log, queue, produced,
          producer, loss_args, loss>>

\* what no step of train() changes
inputs == <<args, invocation, flag_passed, weights_ok, dir0, loss_args, loss>>
device == <<cuda_env, session>>
fs     == <<dir_exists, files, written>>
loop   == <<params, begun, epoch, steps_done, loop_saves>>
gen    == <<queue, produced, producer>>

(* ------------------------- pure functions ----------------------------- *)
RECURSIVE Digits(_)
\* decimal digits of a natural number, most significant first
Digits(n) == IF n < 10 THEN <<n>> ELSE Append(Digits(n \div 10), n % 10)

\* '%02d' % n and '{epoch:02d}'.format(epoch=n): at least two digits
Fmt02d(n) == LET d == Digits(n) IN IF Len(d) < 2 THEN <<0>> \o d ELSE d

\* os.path.join(model_dir, '%02d.h5' % initial_epoch)
FirstFileName(initial_epoch) == Fmt02d(initial_epoch)

\* variant: the path is formatted with the epoch index itself
SaveFileName_epoch(e) == Fmt02d(e)

\* ModelCheckpoint formats its path with epoch + 1 at the end of epoch `e`
SaveFileName(e) == Fmt02d(e + 1)

\* parse_args: the value of args.load_model_file
ParseLoadModelFile(passed, value) ==
    IF passed THEN value ELSE DefaultLoadModelFile

\* content of a checkpoint saved when the model had n updates
Ckpt(n) == <<"ckpt", n>>
Old     == <<"old", 0>>
Partial == <<"partial", 0>>

\* files after model.save(name) succeeded
SaveTo(fl, name, n) == [x \in DOMAIN fl \cup {name} |->
                           IF x = name THEN Ckpt(n) ELSE fl[x]]

\* files after a save failed: nothing written, or a truncated file left
FailedSave(fl, name) == {fl, [x \in DOMAIN fl \cup {name} |->
                                 IF x = name THEN Partial ELSE fl[x]]}

Fail(kind) == pc' = "error" /\ err' = kind

(* ---------------- losses.Miccai2018: reconstruction term -------------- *)
\* numbers with the two outcomes of a division by zero or a logarithm of zero
Fin(n) == <<"fin", n>>
PosInf == <<"inf", 1>>
NegInf == <<"inf", -1>>
NaN    == <<"nan", 0>>
NotEvaluated == <<"none", 0>>

\* a / b for naturals a, b
Ratio(a, b) == IF b /= 0 THEN Fin(a \div b)
               ELSE IF a = 0 THEN NaN ELSE PosInf

RECURSIVE ILog2(_)
\* floor of the binary logarithm of a positive natural
ILog2(n) == IF n <= 1 THEN 0 ELSE 1 + ILog2(n \div 2)

\* log(b) for a natural b
Log(b) == IF b = 0 THEN NegInf ELSE Fin(ILog2(b))

\* x + y
XAdd(x, y) ==
    IF x = NaN \/ y = NaN THEN NaN
    ELSE IF x[1] = "inf" /\ y[1] = "inf" THEN (IF x = y THEN x ELSE NaN)
    ELSE IF x[1] = "inf" THEN x
    ELSE IF y[1] = "inf" THEN y
    ELSE Fin(x[2] + y[2])

\* x / k for a natural k
XOver(x, k) ==
    IF x = NaN THEN NaN
    ELSE IF x[1] = "inf" THEN (IF k = 0 THEN NaN ELSE x)
    ELSE IF k /= 0 THEN Fin(x[2] \div k)
    ELSE IF x[2] = 0 THEN NaN ELSE (IF x[2] > 0 THEN PosInf ELSE NegInf)

\* variant: the predicted variance is used as it comes
Floored_none(variance, floor) == variance

\* the numerical floor: the variance the loss divides by
Floored(variance, floor) == IF variance < floor THEN floor ELSE variance

\* negative-log-Gaussian term of one voxel: sq_err / variance + log(variance)
VoxelTerm(sq_err, variance, floor) ==
    XAdd(Ratio(sq_err, Floored(variance, floor)),
         Log(Floored(variance, floor)))

RECURSIVE SumTerms(_, _, _, _)
\* sum of the voxel terms of voxels 1..n
SumTerms(sq_err, variance, floor, n) ==
    IF n = 0 THEN Fin(0)
    ELSE XAdd(SumTerms(sq_err, variance, floor, n - 1),
              VoxelTerm(sq_err[n], variance[n], floor))

\* recon_loss: mean of the voxel terms, scaled by 1 / image_sigma^2
recon_loss(a) ==
    XOver(XOver(SumTerms(a.sq_err, a.variance, a.floor, Len(a.sq_err)),
                Len(a.sq_err)),
          a.image_sigma * a.image_sigma)

\* volumes of two voxels
Voxels(S) == {<<x, y>> : x \in S, y \in S}

LossInputs ==
    [sq_err : Voxels(0..MaxErr), variance : Voxels(0..MaxVar),
     floor : 1..MaxFloor, image_sigma : 1..MaxSigma]

NoLossArgs ==
    [sq_err |-> <<0, 0>>, variance |-> <<0, 0>>, floor |-> 1,
     image_sigma |-> 1]

(* ------------------------------- Init --------------------------------- *)
ArgsOf(lmf, nb, ie, spe) ==
    [load_model_file |-> lmf, nb_epochs |-> nb, initial_epoch |-> ie,
     steps_per_epoch |-> spe]

\* contents model_dir can have before the run: absent, empty, or holding
\* checkpoints of an earlier run
InitialDirs ==
    { [exists |-> FALSE, files |-> <<>>],
      [exists |-> TRUE,  files |-> <<>>],
      [exists |-> TRUE,  files |-> [x \in {Fmt02d(0), Fmt02d(1)} |-> Old]] }

Init ==
    /\ invocation \in {"cli", "api"}
    /\ flag_passed \in BOOLEAN
    /\ weights_ok \in BOOLEAN
    /\ \E spe \in 1..MaxStepsPerEpoch :
          \/ /\ invocation = "cli"
             \* __main__: no option sets initial_epoch
             /\ \E nb \in 0..MaxRunEpochs :
                   args = ArgsOf(ParseLoadModelFile(flag_passed,
                                                    UserLoadModelFile),
                                 nb, 0, spe)
          \/ /\ invocation = "api"
             /\ flag_passed = FALSE
             /\ \E lmf \in {None, DefaultLoadModelFile, UserLoadModelFile},
                   ie \in 0..MaxInitialEpoch :
                   \E nb \in 0..(ie + MaxRunEpochs) :
                      /\ args = ArgsOf(lmf, nb, ie, spe)
                      /\ (lmf = None => weights_ok = FALSE)
    /\ dir0 \in InitialDirs
    /\ dir_exists = dir0.exists
    /\ files = dir0.files
    /\ train_vol_names = 0
    /\ pc = "start"
    /\ err = ""
    /\ cuda_env = FALSE
    /\ session = FALSE
    /\ model = [built |-> FALSE, loaded |-> FALSE, compiled |-> FALSE,
                losses |-> <<>>]
    /\ params = 0
    /\ begun = 0
    /\ epoch = 0
    /\ steps_done = 0
    /\ written = {}
    /\ loop_saves = <<>>
    /\ log = <<>>
    /\ queue = <<>>
    /\ produced = 0
    /\ producer = "idle"
    /\ loss_args = NoLossArgs
    /\ loss = NotEvaluated

(* ------------------------- train(): set-up ---------------------------- *)
\* atlas_vol = np.load(atlas_file)['vol'][...]; vol_size = ...
LoadAtlas ==
    /\ pc = "start"
    /\ \/ pc' = "atlas_loaded" /\ err' = err
       \/ Fail("atlas")
    /\ UNCHANGED <<inputs, train_vol_names, device, model, fs, loop, log, gen>>

\* variant: the GPU handling runs before the assertion
FindTrainingData_gpu_first ==
    /\ pc = "atlas_loaded"
    /\ cuda_env' = TRUE
    /\ session' = TRUE
    /\ \E n \in 0..MaxVols :
          /\ train_vol_names' = n
          /\ IF n > 0 THEN pc' = "data_ok" /\ err' = err
                      ELSE Fail("no_data")
    /\ UNCHANGED <<inputs, model, fs, loop, log, gen>>

\* variant: the model folder is prepared before the assertion
FindTrainingData_mkdir_first ==
    /\ pc = "atlas_loaded"
    /\ dir_exists' = TRUE
    /\ \E n \in 0..MaxVols :
          /\ train_vol_names' = n
          /\ IF n > 0 THEN pc' = "data_ok" /\ err' = err
                      ELSE Fail("no_data")
    /\ UNCHANGED <<inputs, device, model, files, written, loop, log, gen>>

\* glob, shuffle, assert len(train_vol_names) > 0
FindTrainingData ==
    /\ pc = "atlas_loaded"
    /\ \E n \in 0..MaxVols :
          /\ train_vol_names' = n
          /\ IF n > 0 THEN pc' = "data_ok" /\ err' = err
                      ELSE Fail("no_data")
    /\ UNCHANGED <<inputs, device, model, fs, loop, log, gen>>

\* if not os.path.isdir(model_dir): os.mkdir(model_dir)
PrepareModelDir ==
    /\ pc = "data_ok"
    /\ \/ /\ pc' = "dir_ready" /\ err' = err
          /\ dir_exists' = TRUE
       \/ /\ ~dir_exists
          /\ Fail("mkdir")
          /\ dir_exists' = dir_exists
    /\ UNCHANGED <<inputs, train_vol_names, device, model, files, written,
                   loop, log, gen>>

\* os.environ["CUDA_VISIBLE_DEVICES"] = ...; set_session(tf.Session(...))
GpuHandling ==
    /\ pc = "dir_ready"
    /\ cuda_env' = TRUE
    /\ \/ session' = TRUE /\ pc' = "gpu_ready" /\ err' = err
       \/ session' = session /\ Fail("session")
    /\ UNCHANGED <<inputs, train_vol_names, model, fs, loop, log, gen>>

\* model = networks.miccai2018_net(vol_size, nf_enc, nf_dec)
BuildNetwork ==
    /\ pc = "gpu_ready"
    /\ pc' = "built"
    /\ model' = [model EXCEPT !.built = TRUE]
    /\ log' = Append(log, "build")
    /\ UNCHANGED <<inputs, train_vol_names, err, device, fs, loop, gen>>

\* if load_model_file is not None: model.load_weights(load_model_file)
LoadWeights ==
    /\ pc = "built"
    /\ IF args.load_model_file /= None
       THEN IF weights_ok
            THEN /\ model' = [model EXCEPT !.loaded = TRUE]
                 /\ log' = Append(log, "load")
                 /\ pc' = "weights_ready" /\ err' = err
            ELSE /\ Fail("load_weights")
                 /\ UNCHANGED <<model, log>>
       ELSE /\ pc' = "weights_ready" /\ err' = err
            /\ UNCHANGED <<model, log>>
    /\ UNCHANGED <<inputs, train_vol_names, device, fs, loop, gen>>

\* model.save(os.path.join(model_dir, '%02d.h5' % initial_epoch))
SaveFirstIteration ==
    /\ pc = "weights_ready"
    /\ LET name == FirstFileName(args.initial_epoch) IN
       \/ /\ files' = SaveTo(files, name, params)
          /\ written' = written \cup {name}
          /\ log' = Append(log, "save")
          /\ pc' = "saved" /\ err' = err
       \/ /\ files' \in FailedSave(files, name)
          /\ Fail("save")
          /\ UNCHANGED <<written, log>>
    /\ UNCHANGED <<inputs, train_vol_names, device, model, dir_exists, loop,
                   gen>>

\* model_losses = [loss_class.recon_loss, loss_class.kl_loss]
model_losses == <<"recon_loss", "kl_loss">>

\* variant: compile is not sequenced after the first save
Compile_before_save ==
    /\ pc \in {"weights_ready", "saved"}
    /\ pc' = "compiled"
    /\ model' = [model EXCEPT !.compiled = TRUE, !.losses = model_losses]
    /\ log' = Append(log, "compile")
    /\ UNCHANGED <<inputs, train_vol_names, err, device, fs, loop, gen>>

\* model.compile(optimizer=Adam(lr=lr), loss=[recon_loss, kl_loss])
Compile ==
    /\ pc = "saved"
    /\ pc' = "compiled"
    /\ model' = [model EXCEPT !.compiled = TRUE, !.losses = model_losses]
    /\ log' = Append(log, "compile")
    /\ UNCHANGED <<inputs, train_vol_names, err, device, fs, loop, gen>>

\* example_gen / miccai2018_gen are created (nothing runs until the first
\* next()), save_callback = ModelCheckpoint(save_file_name)
PrepareGenerators ==
    /\ pc = "compiled"
    /\ pc' = "gen_ready"
    /\ UNCHANGED <<inputs, train_vol_names, err, device, model, fs, loop, log,
                   gen>>

(* --------------------- train(): model.fit_generator ------------------- *)
\* variant: the loop runs one epoch too many
MoreEpochs_le(e) == e <= args.nb_epochs

\* `while epoch < epochs` of fit_generator, evaluated for epoch counter e
MoreEpochs(e) == e < args.nb_epochs

\* fit_generator starts the enqueuer thread and sets epoch = initial_epoch
FitStart ==
    /\ pc = "gen_ready"
    /\ epoch' = args.initial_epoch
    /\ steps_done' = 0
    /\ IF MoreEpochs(args.initial_epoch)
       THEN pc' = "fit_loop" /\ producer' = "running"
       ELSE pc' = "done" /\ producer' = "stopped"
    /\ UNCHANGED <<inputs, train_vol_names, err, device, model, fs, params,
                   begun, loop_saves, log, queue, produced>>

\* generator_output = next(output_generator): blocks until a batch is queued;
\* the optimization step begins with that batch
GetBatch ==
    /\ pc = "fit_loop"
    /\ queue /= <<>>
    /\ queue' = Tail(queue)
    /\ begun' = begun + 1
    /\ log' = IF begun = 0 THEN Append(log, "step") ELSE log
    /\ pc' = "updating"
    /\ UNCHANGED <<inputs, train_vol_names, err, device, model, fs, params,
                   epoch, steps_done, loop_saves, produced, producer>>

\* a failure of the producer thread surfaces in the control thread
GeneratorError ==
    /\ pc = "fit_loop"
    /\ producer = "failed"
    /\ Fail("generator")
    /\ UNCHANGED <<inputs, train_vol_names, device, model, fs, loop, log,
                   gen>>

\* variant: the failed step is retried instead of ending the run
StepFail_retry ==
    /\ pc = "updating"
    /\ pc' = "fit_loop"
    /\ err' = "step"
    /\ UNCHANGED <<inputs, train_vol_names, device, model, fs, loop, log,
                   gen>>

\* train_on_batch raises (shape mismatch, resource exhaustion): the finally
\* clause of fit_generator stops the enqueuer and the exception propagates
StepFail ==
    /\ pc = "updating"
    /\ Fail("step")
    /\ producer' = IF producer = "running" THEN "stopped" ELSE producer
    /\ UNCHANGED <<inputs, train_vol_names, device, model, fs, loop, log,
                   queue, produced>>

\* ModelCheckpoint.on_epoch_end(e): model.save(save_file_name.format(e + 1))
\* with the model holding n updates
EpochEnd(e, n) ==
    LET name == SaveFileName(e) IN
    \/ /\ files' = SaveTo(files, name, n)
       /\ written' = written \cup {name}
       /\ loop_saves' = Append(loop_saves, e + 1)
       /\ epoch' = e + 1
       /\ steps_done' = 0
       /\ err' = err
       /\ IF MoreEpochs(e + 1)
          THEN pc' = "fit_loop" /\ producer' = producer
          ELSE /\ pc' = "done"
               /\ producer' = IF producer = "running" THEN "stopped"
                                                       ELSE producer
    \/ /\ files' \in FailedSave(files, name)
       /\ Fail("checkpoint")
       /\ steps_done' = steps_done + 1
       /\ producer' = IF producer = "running" THEN "stopped" ELSE producer
       /\ UNCHANGED <<written, loop_saves, epoch>>

\* variant: the end of the epoch is detected one step late
StepComplete_late ==
    /\ pc = "updating"
    /\ params' = params + 1
    /\ IF steps_done = args.steps_per_epoch
       THEN EpochEnd(epoch, params + 1)
       ELSE /\ steps_done' = steps_done + 1
            /\ pc' = "fit_loop"
            /\ UNCHANGED <<err, files, written, loop_saves, epoch, producer>>
    /\ UNCHANGED <<inputs, train_vol_names, device, model, dir_exists, begun,
                   log, queue, produced>>

\* train_on_batch returns: the parameters are updated, steps_done += 1, and
\* when steps_done reaches steps_per_epoch the epoch ends
StepComplete ==
    /\ pc = "updating"
    /\ params' = params + 1
    /\ IF steps_done + 1 = args.steps_per_epoch
       THEN EpochEnd(epoch, params + 1)
       ELSE /\ steps_done' = steps_done + 1
            /\ pc' = "fit_loop"
            /\ UNCHANGED <<err, files, written, loop_saves, epoch, producer>>
    /\ UNCHANGED <<inputs, train_vol_names, device, model, dir_exists, begun,
                   log, queue, produced>>

(* ------------------- the enqueuer's producer thread ------------------- *)
\* variant: the bound test is off by one
QueueHasRoom_le(q) == Len(q) <= max_queue_size

\* `if self.queue.qsize() < self.max_queue_size` of the enqueuer thread
QueueHasRoom(q) == Len(q) < max_queue_size

\* the thread draws the next batch from miccai2018_gen and queues it
Produce ==
    /\ producer = "running"
    /\ QueueHasRoom(queue)
    /\ produced' = produced + 1
    /\ queue' = Append(queue, produced + 1)
    /\ UNCHANGED <<inputs, train_vol_names, pc, err, device, model, fs, loop,
                   log, producer>>

\* the generator raises (unreadable volume, shape mismatch with the atlas)
ProducerFail ==
    /\ producer = "running"
    /\ producer' = "failed"
    /\ UNCHANGED <<inputs, train_vol_names, pc, err, device, model, fs, loop,
                   log, queue, produced>>

(* --------------------------- specification ---------------------------- *)
Orchestrator ==
    \/ LoadAtlas
    \/ FindTrainingData
    \/ PrepareModelDir
    \/ GpuHandling
    \/ BuildNetwork
    \/ LoadWeights
    \/ SaveFirstIteration
    \/ Compile
    \/ PrepareGenerators
    \/ FitStart
    \/ GetBatch
    \/ GeneratorError
    \/ StepFail
    \/ StepComplete

Producer ==
    \/ Produce
    \/ ProducerFail

Next ==
    \/ Orchestrator
    \/ Producer

Spec == Init /\ [][Next]_vars

\* the control thread and the producer thread are both scheduled
FairSpec == Spec /\ WF_vars(Orchestrator) /\ WF_vars(Producer)

(* ------------------- specification of the loss alone ------------------ *)
\* no training run: the loss is evaluated on its own
LossInit ==
    /\ invocation = "api"
    /\ flag_passed = FALSE
    /\ weights_ok = FALSE
    /\ args = ArgsOf(None, 0, 0, 1)
    /\ dir0 = [exists |-> FALSE, files |-> <<>>]
    /\ dir_exists = FALSE
    /\ files = <<>>
    /\ train_vol_names = 0
    /\ pc = "start"
    /\ err = ""
    /\ cuda_env = FALSE
    /\ session = FALSE
    /\ model = [built |-> FALSE, loaded |-> FALSE, compiled |-> FALSE,
                losses |-> <<>>]
    /\ params = 0
    /\ begun = 0
    /\ epoch = 0
    /\ steps_done = 0
    /\ written = {}
    /\ loop_saves = <<>>
    /\ log = <<>>
    /\ queue = <<>>
    /\ produced = 0
    /\ producer = "idle"
    /\ loss_args \in LossInputs
    /\ loss = NotEvaluated

\* loss = recon_loss(y_true, y_pred)
EvalReconLoss ==
    /\ loss = NotEvaluated
    /\ loss' = recon_loss(loss_args)
    /\ UNCHANGED <<args, invocation, flag_passed, weights_ok, dir0, loss_args,
                   train_vol_names, pc, err, device, model, fs, loop, log, gen>>

LossNext == EvalReconLoss

LossSpec == LossInit /\ [][LossNext]_vars

(* ------------------------------ helpers ------------------------------- *)
Range(s) == {s[i] : i \in 1..Len(s)}

IsPrefix(s, t) == Len(s) <= Len(t) /\ SubSeq(t, 1, Len(s)) = s

InFit == pc \in {"fit_loop", "updating"}

TotalSteps == (args.nb_epochs - args.initial_epoch) * args.steps_per_epoch

(* ------------------------------- C1 ----------------------------------- *)
\* C1: a run that starts at epoch 0 and completes nb_epochs epochs has saved
\* exactly nb_epochs + 1 checkpoints, one under each of the names 00, 01, ...,
\* nb_epochs, and model_dir holds them (next to what it held before the run).
C1_CheckpointCount ==
    (pc = "done" /\ args.initial_epoch = 0) =>
        /\ Cardinality(written) = args.nb_epochs + 1
        /\ written = {Fmt02d(e) : e \in 0..args.nb_epochs}
        /\ DOMAIN files = written \cup DOMAIN dir0.files
        /\ \A f \in written : files[f][1] = "ckpt"

C1_Witness ==
    /\ pc = "done"
    /\ args.initial_epoch = 0
    /\ args.nb_epochs = 2
    /\ args.steps_per_epoch = 5
    /\ params = 10
    /\ DOMAIN dir0.files = {}
    /\ Cardinality(DOMAIN files) = 3

(* ------------------------------- C2 ----------------------------------- *)
\* C2: whenever the run has failed for lack of training data, the GPU
\* environment variable is not set, no session exists and no network is built.
C2_NoDataBeforeGpu ==
    err = "no_data" => (~cuda_env /\ ~session /\ ~model.built)

C2_Witness == pc = "error" /\ err = "no_data" /\ train_vol_names = 0

(* ------------------------------- C3 ----------------------------------- *)
LifecycleOrders ==
    { <<"build", "load", "save", "compile", "step">>,
      <<"build", "save", "compile", "step">> }

\* C3: the lifecycle events happen in the order build, load (if any), first
\* save, compile, first optimization step; no step begins before compile, and
\* the first checkpoint holds the parameters as they were before any update.
C3_LifecycleOrder ==
    /\ \E o \in LifecycleOrders : IsPrefix(log, o)
    /\ (begun > 0 => model.compiled)
    /\ (model.compiled => "save" \in Range(log) /\ model.losses = model_losses)
    /\ ("save" \in Range(log) =>
            /\ FirstFileName(args.initial_epoch) \in DOMAIN files
            /\ files[FirstFileName(args.initial_epoch)] = Ckpt(0))

C3_Witness ==
    /\ log = <<"build", "load", "save", "compile", "step">>
    /\ params >= 1

(* ------------------------------- C4 ----------------------------------- *)
\* C4: during the training loop the number of checkpoints the loop has written
\* is floor(steps done / steps_per_epoch), the k-th of them carries epoch
\* number initial_epoch + k, and the epoch counter has advanced as often.
C4_CheckpointEverySteps ==
    (InFit \/ pc = "done") =>
        /\ Len(loop_saves) = params \div args.steps_per_epoch
        /\ \A k \in 1..Len(loop_saves) :
              /\ loop_saves[k] = args.initial_epoch + k
              /\ Fmt02d(args.initial_epoch + k) \in written
        /\ epoch = args.initial_epoch + Len(loop_saves)

C4_Witness ==
    /\ pc = "fit_loop"
    /\ args.steps_per_epoch = 2
    /\ args.initial_epoch = 9
    /\ params = 3
    /\ loop_saves = <<10>>
    /\ files[<<1, 0>>] = Ckpt(2)

(* ------------------------------- C6 ----------------------------------- *)
\* C6: a failure puts the run in the terminal error state, from which nothing
\* further happens (no retry, no step, no checkpoint), and no step of the run
\* removes or changes a checkpoint the run has successfully written.
C6_FailureIsTerminal ==
    /\ [](err /= "" <=> pc = "error")
    /\ [][ /\ (pc = "error" => pc' = "error" /\ UNCHANGED <<params, begun, fs>>)
           /\ \A f \in written : f \in DOMAIN files' /\ files'[f] = files[f]
       ]_vars

C6_Witness ==
    /\ pc = "error"
    /\ err = "checkpoint"
    /\ Cardinality(written) = 2
    /\ \A f \in written : files[f][1] = "ckpt"
    /\ \E f \in DOMAIN files : files[f] = Partial

(* ------------------------------- C7 ----------------------------------- *)
\* C7: a step begins only when every earlier step's update has completed, the
\* producer's steps leave the model and its parameters alone, and the queue
\* never holds more than max_queue_size batches.
C7_SequentialSteps ==
    /\ [](/\ Len(queue) <= max_queue_size
          /\ begun - params \in {0, 1}
          /\ (pc = "updating" => begun = params + 1))
    /\ [][ /\ (begun' /= begun => begun' = begun + 1 /\ params = begun)
           /\ (produced' /= produced \/ Len(queue') > Len(queue) =>
                  UNCHANGED <<params, model, files, begun>>)
       ]_vars

C7_Witness ==
    /\ pc = "updating"
    /\ params >= 1
    /\ Len(queue) = max_queue_size

(* ------------------------------- C8 ----------------------------------- *)
\* C8 as stated: the run is completed exactly when the epoch counter has
\* reached nb_epochs, after (nb_epochs - initial_epoch) * steps_per_epoch steps.
C8_Original ==
    pc = "done" => (epoch = args.nb_epochs /\ params = TotalSteps)

\* C8 amended: every run ends, in the error state only after a failure; a run
\* with initial_epoch <= nb_epochs is completed exactly when the epoch counter
\* has reached nb_epochs, after (nb_epochs - initial_epoch) * steps_per_epoch
\* steps and not before; a run with initial_epoch > nb_epochs completes
\* without any step, the counter staying at initial_epoch.
C8_Termination ==
    /\ <>(pc \in {"done", "error"})
    /\ [](pc = "error" => err /= "")
    /\ [](pc = "done" /\ args.initial_epoch <= args.nb_epochs =>
             epoch = args.nb_epochs /\ params = TotalSteps)
    /\ [](pc = "done" /\ args.initial_epoch > args.nb_epochs =>
             epoch = args.initial_epoch /\ params = 0 /\ begun = 0)
    /\ [](InFit => epoch < args.nb_epochs /\ params < TotalSteps)

C8_Witness ==
    /\ pc = "done"
    /\ args.initial_epoch = 1
    /\ args.nb_epochs = 2
    /\ args.steps_per_epoch = 2
    /\ params = 2

(* ------------------------------- C5 ----------------------------------- *)
\* C5: a command-line run without --load_model_file loads no weights file and
\* cannot fail on a missing one.
C5_NoFlagNoLoad ==
    (invocation = "cli" /\ ~flag_passed) =>
        (~model.loaded /\ "load" \notin Range(log) /\ err /= "load_weights")

(* ------------------------------- C9 ----------------------------------- *)
\* C9: recon_loss is finite (neither infinite nor NaN) for every prediction,
\* also one whose variance is zero, whatever the positive variance floor.
C9_ReconLossFinite == loss /= NotEvaluated => loss[1] = "fin"

C9_Witness ==
    /\ loss /= NotEvaluated
    /\ loss[1] = "fin"
    /\ loss_args.variance = <<0, 0>>
    /\ loss_args.sq_err = <<MaxErr, 0>>

(* ------------------------------- C10 ---------------------------------- *)
\* C10: a run that has failed for lack of training data has left model_dir as
\* it was: not created, and no file in it written or changed.
C10_NoDataLeavesDisk ==
    err = "no_data" =>
        (dir_exists = dir0.exists /\ files = dir0.files /\ written = {})

C10_Witness ==
    /\ pc = "error"
    /\ err = "no_data"
    /\ ~dir0.exists
    /\ ~dir_exists

====
